---- MODULE Spec2Model ----
(***************************************************************************)
(* Model of back2back/diffsum.py: two parsed DejaGnu summary logs are      *)
(* matched by test key, every matched pair is categorized, and build       *)
(* errors are reduced to terse diagnostic lines.                           *)
(*                                                                         *)
(* Strings whose characters the code inspects (raw statuses, messages)     *)
(* are tuples of one-character strings, so that startswith and slicing     *)
(* are computed and not assumed.                                           *)
(***************************************************************************)
EXTENDS Integers, Sequences, FiniteSets, TLC

\* ------------------------------------------------------------------------
\* Bounds of the model
\* ------------------------------------------------------------------------
MaxResults == 2
MaxCategorize == 2
MaxErrLines == 2
MaxLines == 3

\* ------------------------------------------------------------------------
\* Python values
\* ------------------------------------------------------------------------
None == "None"

PASS == <<"P", "A", "S", "S">>
FAIL == <<"F", "A", "I", "L">>
SKIP == <<"S", "K", "I", "P">>
KFAIL == <<"K", "F", "A", "I", "L">>
XFAIL == <<"X", "F", "A", "I", "L">>
UNTESTED == <<"U", "N", "T", "E", "S", "T", "E", "D">>

\* str.startswith
StartsWith(s, p) ==
    /\ Len(p) <= Len(s)
    /\ \A i \in 1..Len(p) : s[i] = p[i]

\* s[-4:]
Last4(s) ==
    IF Len(s) <= 4 THEN s ELSE SubSeq(s, Len(s) - 3, Len(s))

\* Test keys: os.path.join(basename(dirname), basename).  A directory name
\* holds no separator, so key.startswith("gdb.threads/") is dir = "gdb.threads".
KeyThreads == [dir |-> "gdb.threads", base |-> "t.exp"]
KeyBase == [dir |-> "gdb.base", base |-> "a.exp"]
KeyPython == [dir |-> "gdb.python", base |-> "p.exp"]
Keys == {KeyBase, KeyPython, KeyThreads}

\* sorted() over keys: string order of dir/base
KeyRank(k) ==
    CASE k = KeyBase -> 1
      [] k = KeyPython -> 2
      [] k = KeyThreads -> 3

Sumfiles == {"A", "B"}

\* ------------------------------------------------------------------------
\* SumfileTestcaseResult
\* ------------------------------------------------------------------------
\* A sub-result: raw status, message, and the back-reference to the record
\* that created it (owner: which Sumfile, key: which testcase).
Result(owner, key, raw, msg) ==
    [owner |-> owner, key |-> key, raw |-> raw, msg |-> msg]

testname(r) == r.key

\* The status property raises ValueError for a status that does not cook.
cooked(r) ==
    IF StartsWith(r.raw, <<"U", "N">>) THEN SKIP ELSE Last4(r.raw)

status_raises(r) == cooked(r) \notin {PASS, FAIL, SKIP}

status(r) == cooked(r)

\* Variant: identity of the owning record instead of the test name, as
\* when results compare by object.
as_tuple_with_owner(r) == <<r.raw, r.owner, r.msg>>

as_tuple(r) == <<r.raw, testname(r), r.msg>>

\* __ne__ with other not None, and __eq__
result_ne(x, y) == as_tuple(x) # as_tuple(y)

result_eq(x, y) == ~result_ne(x, y)

\* list.__eq__ over results
results_eq(xs, ys) ==
    /\ Len(xs) = Len(ys)
    /\ \A i \in 1..Len(xs) : result_eq(xs[i], ys[i])

\* not_failure_of evaluates its disjuncts left to right; the status of self
\* is read first, the status of other only when self cooks to FAIL.
failure_of_raises(x, y) ==
    /\ testname(x) = testname(y)
    /\ \/ status_raises(x)
       \/ status(x) = FAIL /\ status_raises(y)

\* Variant: the prefix test with its two messages exchanged.
not_failure_of_prefix_reversed(x, y) ==
    \/ testname(x) # testname(y)
    \/ status(x) # FAIL
    \/ status(y) # PASS
    \/ ~StartsWith(y.msg, x.msg)

not_failure_of(x, y) ==
    \/ testname(x) # testname(y)
    \/ status(x) # FAIL
    \/ status(y) # PASS
    \/ ~StartsWith(x.msg, y.msg)

is_failure_of(x, y) == ~not_failure_of(x, y)

\* str(failer): the rendered form the racy.tests expressions search.
RenderRaw(r) == <<r.raw, r.key, r.msg>>

\* is_known_racy_failure: some expression of RACYFAIL_REGEXPS matches.  An
\* expression is modelled by the set of rendered forms it matches.
is_known_racy_failure(regexps, failer) ==
    \E e \in regexps : RenderRaw(failer) \in e

\* The hard-coded rule of is_racy_failure, which prints the warning.
racy_by_rule(failer) ==
    /\ failer.raw \in {KFAIL, XFAIL}
    /\ failer.key.dir = "gdb.threads"

is_racy_failure(regexps, failer) ==
    is_known_racy_failure(regexps, failer) \/ racy_by_rule(failer)

racy_warns(regexps, failer) ==
    ~is_known_racy_failure(regexps, failer) /\ racy_by_rule(failer)

\* ------------------------------------------------------------------------
\* SumfileTestcase
\* ------------------------------------------------------------------------
\* list.index(orig): position of the first element equal to orig, 0 if none
\* (list.index raises ValueError then).
index(results, orig) ==
    IF \E j \in 1..Len(results) : result_eq(results[j], orig)
    THEN CHOOSE j \in 1..Len(results) :
            /\ result_eq(results[j], orig)
            /\ \A h \in 1..(j - 1) : ~result_eq(results[h], orig)
    ELSE 0

\* _replace_result: self.results[self.results.index(orig)] = repl
replace_result(results, orig, repl) ==
    [results EXCEPT ![index(results, orig)] = repl]

\* The counts property: a dict holding the cooked statuses that occur.
counts(results) ==
    [s \in {status(results[i]) : i \in 1..Len(results)} |->
        Cardinality({i \in 1..Len(results) : status(results[i]) = s})]

counts_raises(results) ==
    \E i \in 1..Len(results) : status_raises(results[i])

has_results(results) == Len(results) > 0

all_one_status(results, s) == DOMAIN counts(results) = {s}

all_skipped(results) == all_one_status(results, SKIP)

count(results, s) ==
    IF s \in DOMAIN counts(results) THEN counts(results)[s] ELSE 0

num_passed(results) == count(results, PASS)

num_failed(results) == count(results, FAIL)

num_skipped(results) == count(results, SKIP)

\* ------------------------------------------------------------------------
\* Equivalence, with its in-place racy substitution
\* ------------------------------------------------------------------------
\* The state an equivalence check threads through its loop: both result
\* lists, the verdict, the exception raised ("" for none), and how often the
\* racy classifier was consulted, warned, and a result was replaced.
EqStart(a, b) ==
    [a |-> a, b |-> b, neq |-> FALSE, exc |-> "",
     consulted |-> 0, warned |-> 0, replaced |-> 0]

\* The part of SumfileTestcaseResult.not_equivalent_to after passer and
\* failer are chosen: is_racy_failure, then the substitution in the failer's
\* own testcase.
racy_substitute(regexps, st, failer, passer) ==
    LET st1 == [st EXCEPT !.consulted = @ + 1,
                          !.warned = @ + (IF racy_warns(regexps, failer)
                                          THEN 1 ELSE 0)]
        mine == IF failer.owner = "A" THEN st.a ELSE st.b
    IN  IF ~is_racy_failure(regexps, failer)
        THEN [st1 EXCEPT !.neq = TRUE]
        ELSE IF index(mine, failer) = 0
        THEN [st1 EXCEPT !.exc = "ValueError"]
        ELSE IF failer.owner = "A"
        THEN [st1 EXCEPT !.a = replace_result(st.a, failer, passer),
                         !.replaced = @ + 1]
        ELSE [st1 EXCEPT !.b = replace_result(st.b, failer, passer),
                         !.replaced = @ + 1]

\* SumfileTestcaseResult.not_equivalent_to(self = x, other = y)
result_not_equivalent_to(regexps, st, x, y) ==
    IF result_eq(x, y) THEN st
    ELSE IF failure_of_raises(x, y) THEN [st EXCEPT !.exc = "ValueError"]
    ELSE IF is_failure_of(x, y) THEN racy_substitute(regexps, st, x, y)
    ELSE IF failure_of_raises(y, x) THEN [st EXCEPT !.exc = "ValueError"]
    ELSE IF is_failure_of(y, x) THEN racy_substitute(regexps, st, y, x)
    ELSE [st EXCEPT !.neq = TRUE]

\* The zip loop of SumfileTestcase.not_equivalent_to, from position i on.
\* zip reads the live lists, so position i sees earlier substitutions.
RECURSIVE zip_loop(_, _, _)
zip_loop(regexps, st, i) ==
    IF i > Len(st.a) \/ i > Len(st.b) THEN st
    ELSE LET st1 == result_not_equivalent_to(regexps, st, st.a[i], st.b[i])
         IN  IF st1.neq \/ st1.exc # "" THEN st1
             ELSE zip_loop(regexps, st1, i + 1)

\* SumfileTestcase.not_equivalent_to(self = a, other = b), both present
not_equivalent_to(regexps, a, b) ==
    IF Len(a) # Len(b)
    THEN [EqStart(a, b) EXCEPT !.neq = TRUE]
    ELSE zip_loop(regexps, EqStart(a, b), 1)

\* ------------------------------------------------------------------------
\* SumfileTestcasePair: the ten categories and the decision procedure
\* ------------------------------------------------------------------------
\* _cls_init: the categories in priority order, lowest first.
CategoryOrder ==
    <<"IDENTICAL", "SKIPPED_EQUIVALENT", "TEST_APPEARED", "PART_SKIPPED",
      "TEST_SKIPPED", "TEST_BOMBED", "TEST_VANISHED", "EQUIVALENT",
      "REGRESSED", "IMPROVED">>

Categories == {CategoryOrder[i] : i \in 1..Len(CategoryOrder)}

\* What a run of the decision procedure returns or raises.
Returned(c) == [cat |-> c, exc |-> ""]

Raised(e) == [cat |-> None, exc |-> e]

\* Variant: every equivalent pair is IDENTICAL.
categorize_equivalent_always_identical(a, b) ==
    Returned("IDENTICAL")

categorize_equivalent(a, b) ==
    IF results_eq(a, b) THEN Returned("IDENTICAL") ELSE Returned("EQUIVALENT")

\* The final assertion of _categorize_nonequivalent compares the two dicts.
counts_assertion(a, b) == counts(b) = counts(a)

\* Variant: the skip rule tried before the pass rule.
categorize_nonequivalent_skips_first(a, b) ==
    IF counts_raises(b) \/ counts_raises(a) THEN Raised("ValueError")
    ELSE IF num_skipped(b) < num_skipped(a) THEN Returned("IMPROVED")
    ELSE IF num_passed(b) < num_passed(a) THEN Returned("REGRESSED")
    ELSE IF num_failed(b) > num_failed(a) THEN Returned("REGRESSED")
    ELSE IF num_skipped(b) > num_skipped(a) THEN Returned("PART_SKIPPED")
    ELSE IF num_passed(b) > num_passed(a) THEN Returned("IMPROVED")
    ELSE IF ~counts_assertion(a, b) THEN Raised("AssertionError")
    ELSE Returned("EQUIVALENT")

categorize_nonequivalent(a, b) ==
    IF counts_raises(b) \/ counts_raises(a) THEN Raised("ValueError")
    ELSE IF num_passed(b) < num_passed(a) THEN Returned("REGRESSED")
    ELSE IF num_skipped(b) < num_skipped(a) THEN Returned("IMPROVED")
    ELSE IF num_failed(b) > num_failed(a) THEN Returned("REGRESSED")
    ELSE IF num_skipped(b) > num_skipped(a) THEN Returned("PART_SKIPPED")
    ELSE IF num_passed(b) > num_passed(a) THEN Returned("IMPROVED")
    ELSE IF ~counts_assertion(a, b) THEN Raised("AssertionError")
    ELSE Returned("EQUIVALENT")

\* The rules of _categorize after the equivalence check found the records
\* not equivalent; a and b are the result lists the check left behind.
categorize_not_equivalent(a, b) ==
    IF ~has_results(b)
    THEN IF counts_raises(a) THEN Raised("ValueError")
         ELSE IF all_skipped(a) THEN Returned("SKIPPED_EQUIVALENT")
         ELSE Returned("TEST_BOMBED")
    ELSE IF counts_raises(b) THEN Raised("ValueError")
    ELSE IF all_skipped(b)
    THEN IF counts_raises(a) THEN Raised("ValueError")
         ELSE IF all_skipped(a) THEN Returned("SKIPPED_EQUIVALENT")
         ELSE Returned("TEST_SKIPPED")
    ELSE categorize_nonequivalent(a, b)

\* Variant: the has_results rule tried before the equivalence rule.
categorize_present_results_first(eq) ==
    IF eq.exc # "" THEN Raised(eq.exc)
    ELSE IF ~has_results(eq.b) THEN categorize_not_equivalent(eq.a, eq.b)
    ELSE IF ~eq.neq THEN categorize_equivalent(eq.a, eq.b)
    ELSE categorize_not_equivalent(eq.a, eq.b)

\* _categorize for a pair with both records present: eq is the outcome of
\* a.is_equivalent_to(b).
categorize_present(eq) ==
    IF eq.exc # "" THEN Raised(eq.exc)
    ELSE IF ~eq.neq THEN categorize_equivalent(eq.a, eq.b)
    ELSE categorize_not_equivalent(eq.a, eq.b)

\* Variant: the two presence rules with their categories exchanged.
categorize_absent_swapped(hasA, hasB) ==
    IF ~hasA THEN Returned("TEST_VANISHED") ELSE Returned("TEST_APPEARED")

\* The two presence rules of _categorize.
categorize_absent(hasA, hasB) ==
    IF ~hasA THEN Returned("TEST_APPEARED") ELSE Returned("TEST_VANISHED")

\* ------------------------------------------------------------------------
\* Build errors: terse extraction
\* ------------------------------------------------------------------------
\* A build-error line is held as WARNING_ERROR_RE.split(line) returns it:
\* the texts between the warning:/error: markers (one text when the line has
\* no marker).
Digits == {"0", "1", "2", "3", "4", "5", "6", "7", "8", "9"}

\* INFILE_LOCATION_RE  :\d+(?::\d+)?$  matches at the end of the text
is_infile_location(text) ==
    \E i \in 1..(Len(text) - 1) :
        /\ text[i] = ":"
        /\ \A j \in (i + 1)..Len(text) : text[j] \in Digits

\* message.find(" [-W") >= 0
cites_flag(message) ==
    \E i \in 1..(Len(message) - 3) :
        SubSeq(message, i, i + 3) = <<" ", "[", "-", "W">>

UnknownPrefix == <<"<", "u", "n", "k", "n", "o", "w", "n", ">", ":", "0">>

\* _compiler_prefixes as the class is defined
InitialPrefixes == {UnknownPrefix}

\* Variant: a prefix whose message cites a flag is cached whether or not
\* it is a location in a file.
is_terse_build_error_caches_location(prefixes, parts) ==
    IF Len(parts) = 1
    THEN [terse |-> FALSE, prefixes |-> prefixes, exc |-> ""]
    ELSE IF Len(parts) # 2
    THEN [terse |-> FALSE, prefixes |-> prefixes, exc |-> "ValueError"]
    ELSE IF parts[1] \in prefixes
    THEN [terse |-> TRUE, prefixes |-> prefixes, exc |-> ""]
    ELSE IF cites_flag(parts[2])
    THEN [terse |-> TRUE, prefixes |-> prefixes \cup {parts[1]}, exc |-> ""]
    ELSE IF is_infile_location(parts[1])
    THEN [terse |-> TRUE, prefixes |-> prefixes, exc |-> ""]
    ELSE [terse |-> FALSE, prefixes |-> prefixes, exc |-> ""]

\* is_terse_build_error: the verdict, the cache afterwards, and the
\* exception of the two-name unpacking when the line has several markers.
is_terse_build_error(prefixes, parts) ==
    IF Len(parts) = 1
    THEN [terse |-> FALSE, prefixes |-> prefixes, exc |-> ""]
    ELSE IF Len(parts) # 2
    THEN [terse |-> FALSE, prefixes |-> prefixes, exc |-> "ValueError"]
    ELSE IF parts[1] \in prefixes
    THEN [terse |-> TRUE, prefixes |-> prefixes, exc |-> ""]
    ELSE IF cites_flag(parts[2])
    THEN [terse |-> TRUE,
          prefixes |-> IF is_infile_location(parts[1]) THEN prefixes
                       ELSE prefixes \cup {parts[1]},
          exc |-> ""]
    ELSE IF is_infile_location(parts[1])
    THEN [terse |-> TRUE, prefixes |-> prefixes, exc |-> ""]
    ELSE [terse |-> FALSE, prefixes |-> prefixes, exc |-> ""]

\* The classification loop of terse_build_errors from line i on; acc holds
\* the lines yielded so far and the cache.
RECURSIVE terse_loop(_, _, _)
terse_loop(lines, acc, i) ==
    IF i > Len(lines) THEN acc
    ELSE LET r == is_terse_build_error(acc.prefixes, lines[i])
         IN  IF r.exc # "" THEN [acc EXCEPT !.exc = r.exc]
             ELSE terse_loop(lines,
                             [acc EXCEPT !.prefixes = r.prefixes,
                                         !.terse = IF r.terse
                                                   THEN Append(@, lines[i])
                                                   ELSE @],
                             i + 1)

\* The lines the failure path prints: "%d:" % (lineno + 1), line
numbered(lines) == [i \in 1..Len(lines) |-> <<i, lines[i]>>]

\* raise SystemExit carries no code
SystemExitCode == None

\* The exit status the interpreter gives the process for an exception that
\* reaches the top level: SystemExit with code None exits 0, any other
\* exception prints a traceback and exits 1.
exit_status(exc, code) ==
    IF exc = "SystemExit"
    THEN (IF code = None THEN 0 ELSE 1)
    ELSE 1

\* terse_build_errors, run to exhaustion: the lines yielded, the cache, what
\* was printed, and the exception raised.
terse_build_errors(prefixes, lines) ==
    LET acc == terse_loop(lines,
                          [terse |-> <<>>, prefixes |-> prefixes,
                           exc |-> "", printed |-> <<>>],
                          1)
    IN  IF lines = <<>> THEN acc
        ELSE IF acc.exc # "" THEN acc
        ELSE IF acc.terse # <<>> THEN acc
        ELSE [acc EXCEPT !.printed = numbered(lines), !.exc = "SystemExit"]

\* ------------------------------------------------------------------------
\* SumfileMatcher
\* ------------------------------------------------------------------------
\* Sumfile.get(key, None) returns the record or None; has is "not None".
has(testcases, key) == key \in DOMAIN testcases

\* keys(): sorted(set(a.keys()) | set(b.keys())), as a list
RECURSIVE sorted_list(_)
sorted_list(S) ==
    IF S = {} THEN <<>>
    ELSE LET least == CHOOSE x \in S : \A y \in S : KeyRank(x) <= KeyRank(y)
         IN  <<least>> \o sorted_list(S \ {least})

\* Variant: keys() without the update from the second log.
matcher_keys_no_update(A, B) == sorted_list(DOMAIN A)

matcher_keys(A, B) == sorted_list(DOMAIN A \cup DOMAIN B)

NewPair(key, hasA, hasB) ==
    [key |-> key, a |-> hasA, b |-> hasB, category |-> None, ncat |-> 0]

\* __getitem__ raises KeyError when neither log holds the key.
getitem_raises(A, B, key) == ~has(A, key) /\ ~has(B, key)

getitem(A, B, key) == NewPair(key, has(A, key), has(B, key))

\* ------------------------------------------------------------------------
\* State
\* ------------------------------------------------------------------------
VARIABLES
    sfa,          \* Sumfile A's testcases: key -> [results, errs]
    sfb,          \* Sumfile B's testcases
    regexps,      \* RACYFAIL_REGEXPS, as loaded from racy.tests
    pairs,        \* the pairs the matcher's iteration has yielded, in order
    prefixes,     \* SumfileTestcase._compiler_prefixes
    substituted,  \* keys whose records have had a racy substitution
    settled,      \* keys where a check substituted and reported equivalent
    total,        \* CountsReport's TOTAL, -1 before the report
    stdout,       \* the numbered lines printed by a failed terse extraction
    pc,           \* "running" or "exited"
    exc,          \* the exception that ended the process, "" for none
    exitcode,     \* the process exit status, -1 while running
    last,         \* the last operation and what it observed
    files         \* per Sumfile: its lines, and what _read made of them

vars == <<sfa, sfb, regexps, pairs, prefixes, substituted, settled, total, stdout,
          pc, exc, exitcode, last, files>>

NoKey == [dir |-> "", base |-> ""]

\* No sub-result
NoResult == Result("", NoKey, <<>>, <<>>)

NoLast ==
    [op |-> "", idx |-> 0, key |-> NoKey, f |-> "", ran |-> FALSE,
     prior |-> FALSE, priorEq |-> FALSE, neq |-> FALSE, consulted |-> 0, warned |-> 0,
     replaced |-> 0, cat |-> None, exc |-> "", terse |-> <<>>,
     a |-> FALSE, b |-> FALSE,
     x |-> NoResult, y |-> NoResult, holds |-> FALSE,
     v |-> 0, deltas |-> {}]

\* An uncaught exception ends the process.
Abort(e) ==
    /\ pc' = "exited"
    /\ exc' = e
    /\ exitcode' = exit_status(e, SystemExitCode)

Continue == UNCHANGED <<pc, exc, exitcode>>

\* ------------------------------------------------------------------------
\* Inputs
\* ------------------------------------------------------------------------
MsgA == <<"a">>
MsgAB == <<"a", "b">>
Messages == {MsgA, MsgAB}

\* Sequences of at most n elements of S
SeqUpTo(S, n) == UNION {[1..m -> S] : m \in 0..n}

\* The result lines a log may hold for its test: status and message
RawResults ==
    {[raw |-> PASS, msg |-> MsgA], [raw |-> PASS, msg |-> MsgAB],
     [raw |-> FAIL, msg |-> MsgA], [raw |-> KFAIL, msg |-> MsgAB],
     [raw |-> UNTESTED, msg |-> MsgA]}

\* A record as _consume builds it for key in sumfile f.
MkRecord(f, key, rs, errs) ==
    [results |-> [i \in 1..Len(rs) |-> Result(f, key, rs[i].raw, rs[i].msg)],
     errs |-> errs]

MkSumfile(f, choice) ==
    [k \in DOMAIN choice |-> MkRecord(f, k, choice[k].rs, choice[k].errs)]

\* A racy.tests expression such as "FAIL: gdb.base/a.exp: a": search matches
\* every rendered form that contains it.
RacyExprBase ==
    {<<raw, KeyBase, msg>> : raw \in {FAIL, KFAIL, XFAIL}, msg \in Messages}

\* The result lines of the long lists: a pass, a plain failure of it, a
\* known failure that is racy under gdb.threads, and a skip.
LongResults ==
    {[raw |-> PASS, msg |-> MsgA], [raw |-> FAIL, msg |-> MsgA],
     [raw |-> KFAIL, msg |-> MsgAB], [raw |-> UNTESTED, msg |-> MsgA]}

\* The inputs of a comparison of one test: its key, the racy.tests list, and
\* the result lists its two records are drawn from.
Configs ==
    {[key |-> KeyThreads, regexps |-> {},
      lists |-> SeqUpTo(LongResults, MaxResults)],
     [key |-> KeyBase, regexps |-> {RacyExprBase},
      lists |-> SeqUpTo(RawResults, 1)]}

\* ------------------------------------------------------------------------
\* WARNING_ERROR_RE.split
\* ------------------------------------------------------------------------
\* \s
Whitespace == {" ", "\t", "\n"}

WordWarning ==
    <<"w", "a", "r", "n", "i", "n", "g">>

WordError ==
    <<"e", "r", "r", "o", "r">>

WordFatal ==
    <<"f", "a", "t", "a", "l">>

\* The text w stands in s at position i.
HasAt(s, i, w) ==
    /\ i + Len(w) - 1 <= Len(s)
    /\ SubSeq(s, i, i + Len(w) - 1) = w

\* \s* from position i: the first position that holds no whitespace
RECURSIVE SkipSpace(_, _)
SkipSpace(s, i) ==
    IF i <= Len(s) /\ s[i] \in Whitespace THEN SkipSpace(s, i + 1) ELSE i

\* A match of  :\s*(?:warning|(?:fatal\s+)?error):\s*  that starts at
\* position i: the position after the match, 0 when there is no match.
marker_end(s, i) ==
    IF s[i] # ":" THEN 0
    ELSE LET j == SkipSpace(s, i + 1)
             f == SkipSpace(s, j + 5)
             k == IF HasAt(s, j, WordWarning) THEN j + 7
                  ELSE IF HasAt(s, j, WordError) THEN j + 5
                  ELSE IF HasAt(s, j, WordFatal) /\ f > j + 5
                          /\ HasAt(s, f, WordError)
                  THEN f + 5
                  ELSE 0
         IN  IF k = 0 \/ k > Len(s) THEN 0
             ELSE IF s[k] # ":" THEN 0
             ELSE SkipSpace(s, k + 1)

\* re.split: the texts between the leftmost non-overlapping matches
RECURSIVE WARNING_ERROR_RE_split(_)
WARNING_ERROR_RE_split(s) ==
    IF \E i \in 1..Len(s) : marker_end(s, i) > 0
    THEN LET i == CHOOSE i \in 1..Len(s) :
                    /\ marker_end(s, i) > 0
                    /\ \A h \in 1..(i - 1) : marker_end(s, h) = 0
         IN  <<SubSeq(s, 1, i - 1)>>
             \o WARNING_ERROR_RE_split(SubSeq(s, marker_end(s, i), Len(s)))
    ELSE <<s>>

\* foo.c:12:5: warning: unused variable 'x' [-Wunused-variable]
DiagnosticLine ==
    <<"f", "o", "o", ".", "c", ":", "1", "2", ":", "5", ":", " ", "w", "a",
      "r", "n", "i", "n", "g", ":", " ", "u", "n", "u", "s", "e", "d", " ",
      "v", "a", "r", "i", "a", "b", "l", "e", " ", "'", "x", "'", " ", "[",
      "-", "W", "u", "n", "u", "s", "e", "d", "-", "v", "a", "r", "i", "a",
      "b", "l", "e", "]">>

DiagnosticParts == WARNING_ERROR_RE_split(DiagnosticLine)

\* Build-error lines, split at their markers
PrefixLoc == <<"f", ":", "1", "2", ":", "5">>
PrefixTool == <<"c", "c", "1">>
MsgFlag == <<"u", " ", "[", "-", "W", "u", "]">>
MsgPlain == <<"b", "a", "d">>
ErrLines ==
    {<<MsgPlain>>,
     <<PrefixTool, MsgPlain>>,
     <<PrefixTool, MsgFlag>>,
     <<PrefixLoc, MsgPlain>>,
     <<UnknownPrefix, MsgPlain>>,
     <<PrefixTool, MsgPlain, MsgPlain>>,
     DiagnosticParts}

\* A Sumfile already read, its lines not kept
AlreadyRead ==
    [lines |-> <<>>, read |-> TRUE, preamble |-> <<>>, summary |-> <<>>]

InitRest ==
    /\ files = [f \in Sumfiles |-> AlreadyRead]
    /\ pairs = <<>>
    /\ prefixes = InitialPrefixes
    /\ substituted = {}
    /\ settled = {}
    /\ total = -1
    /\ stdout = <<>>
    /\ pc = "running"
    /\ exc = ""
    /\ exitcode = -1
    /\ last = NoLast

\* One test key, in either log or both, with any sub-results.
Init ==
    /\ \E c \in Configs :
        \E KA \in SUBSET {c.key}, KB \in SUBSET {c.key} :
        \E ca \in [KA -> [rs : c.lists, errs : {<<>>}]],
           cb \in [KB -> [rs : c.lists, errs : {<<>>}]] :
            /\ sfa = MkSumfile("A", ca)
            /\ sfb = MkSumfile("B", cb)
            /\ regexps = c.regexps
    /\ InitRest

\* ------------------------------------------------------------------------
\* Operations
\* ------------------------------------------------------------------------
\* next() on the matcher's iterator: values() walks keys() and builds one
\* pair per key through __getitem__.
IterNext ==
    /\ pc = "running"
    /\ Len(pairs) < Len(matcher_keys(sfa, sfb))
    /\ LET key == matcher_keys(sfa, sfb)[Len(pairs) + 1]
       IN  /\ pairs' = Append(pairs, getitem(sfa, sfb, key))
           /\ last' = [NoLast EXCEPT !.op = "next", !.idx = Len(pairs) + 1,
                                     !.key = key,
                                     !.a = has(sfa, key), !.b = has(sfb, key)]
    /\ Continue
    /\ UNCHANGED <<files, sfa, sfb, regexps, prefixes, substituted, settled, total,
                   stdout>>

\* matcher[key] for any key, looked up before the iteration starts
GetItem(key) ==
    /\ pc = "running"
    /\ pairs = <<>>
    /\ IF getitem_raises(sfa, sfb, key)
       THEN /\ Abort("KeyError")
            /\ last' = [NoLast EXCEPT !.op = "getitem", !.key = key,
                                      !.exc = "KeyError"]
       ELSE /\ Continue
            /\ last' = [NoLast EXCEPT !.op = "getitem", !.key = key,
                                      !.a = getitem(sfa, sfb, key).a,
                                      !.b = getitem(sfa, sfb, key).b]
    /\ UNCHANGED <<files, sfa, sfb, regexps, pairs, prefixes, substituted, settled,
                   total, stdout>>

\* Variant: the category property without its cache test.
category_never_cached(pair) == FALSE

\* The test of the category property: is a category cached?
category_cached(pair) == pair.category # None

\* What an equivalence check leaves in the records and in the history.
ApplyCheck(key, eq) ==
    /\ sfa' = [sfa EXCEPT ![key].results = eq.a]
    /\ sfb' = [sfb EXCEPT ![key].results = eq.b]
    /\ substituted' = IF eq.replaced > 0 THEN substituted \cup {key}
                      ELSE substituted
    /\ settled' = IF eq.replaced > 0 /\ ~eq.neq /\ eq.exc = ""
                  THEN settled \cup {key} ELSE settled

ObserveCheck(l, key, eq) ==
    [l EXCEPT !.prior = key \in substituted, !.priorEq = key \in settled,
              !.neq = eq.neq, !.consulted = eq.consulted,
              !.warned = eq.warned, !.replaced = eq.replaced]

\* pair.category for the i-th pair, read before any report is printed
ReadCategory(i) ==
    /\ pc = "running"
    /\ total = -1
    /\ i \in 1..Len(pairs)
    /\ pairs[i].ncat < MaxCategorize
    /\ LET p == pairs[i]
           l == [NoLast EXCEPT !.op = "category", !.idx = i, !.key = p.key,
                               !.a = p.a, !.b = p.b]
       IN  IF category_cached(p)
           THEN /\ last' = [l EXCEPT !.cat = p.category]
                /\ Continue
                /\ UNCHANGED <<sfa, sfb, pairs, substituted, settled>>
           ELSE IF ~(p.a /\ p.b)
           THEN LET out == categorize_absent(p.a, p.b)
                IN  /\ pairs' = [pairs EXCEPT ![i].category = out.cat,
                                              ![i].ncat = @ + 1]
                    /\ last' = [l EXCEPT !.ran = TRUE, !.cat = out.cat]
                    /\ Continue
                    /\ UNCHANGED <<sfa, sfb, substituted, settled>>
           ELSE LET eq == not_equivalent_to(regexps, sfa[p.key].results,
                                            sfb[p.key].results)
                    out == categorize_present(eq)
                IN  /\ ApplyCheck(p.key, eq)
                    /\ pairs' = [pairs EXCEPT ![i].category = out.cat,
                                              ![i].ncat = @ + 1]
                    /\ last' = [ObserveCheck(l, p.key, eq) EXCEPT
                                    !.ran = TRUE, !.cat = out.cat,
                                    !.exc = out.exc]
                    /\ IF out.exc # "" THEN Abort(out.exc) ELSE Continue
    /\ UNCHANGED <<files, regexps, prefixes, total, stdout>>

\* pair.a.is_equivalent_to(pair.b) for the i-th pair
CheckEquivalence(i) ==
    /\ pc = "running"
    /\ total = -1
    /\ i \in 1..Len(pairs)
    /\ pairs[i].a
    /\ LET p == pairs[i]
           l == [NoLast EXCEPT !.op = "equivalent", !.idx = i, !.key = p.key,
                               !.a = p.a, !.b = p.b]
       IN  IF ~p.b
           THEN /\ last' = [l EXCEPT !.neq = TRUE]
                /\ Continue
                /\ UNCHANGED <<sfa, sfb, substituted, settled>>
           ELSE LET eq == not_equivalent_to(regexps, sfa[p.key].results,
                                            sfb[p.key].results)
                IN  /\ ApplyCheck(p.key, eq)
                    /\ last' = [ObserveCheck(l, p.key, eq) EXCEPT
                                    !.exc = eq.exc]
                    /\ IF eq.exc # "" THEN Abort(eq.exc) ELSE Continue
    /\ UNCHANGED <<files, regexps, pairs, prefixes, total, stdout>>

\* main's loop has run to its end: every key yielded and categorized.
LoopDone ==
    /\ Len(pairs) = Len(matcher_keys(sfa, sfb))
    /\ \A i \in 1..Len(pairs) : pairs[i].category # None

\* list(record.terse_build_errors) for the record of key in sumfile f; the
\* reports that read it run after main's loop, in place of the counts report.
TerseBuildErrors(f, key) ==
    /\ pc = "running"
    /\ total = -1
    /\ has(IF f = "A" THEN sfa ELSE sfb, key)
    /\ LoopDone
    /\ LET rec == IF f = "A" THEN sfa[key] ELSE sfb[key]
           r == terse_build_errors(prefixes, rec.errs)
       IN  /\ prefixes' = r.prefixes
           /\ stdout' = r.printed
           /\ last' = [NoLast EXCEPT !.op = "terse", !.key = key, !.f = f,
                                     !.terse = r.terse, !.exc = r.exc]
           /\ IF r.exc # "" THEN Abort(r.exc) ELSE Continue
    /\ UNCHANGED <<files, sfa, sfb, regexps, pairs, substituted, settled, total>>

\* pairs_by_category, as main groups the pairs
pairs_by_category(ps) ==
    [c \in {ps[i].category : i \in 1..Len(ps)} |->
        {i \in 1..Len(ps) : ps[i].category = c}]

\* reduce(operator.add, lengths) over the categories from position n down
RECURSIVE reduce_add(_, _)
reduce_add(pbc, n) ==
    IF n = 0 THEN 0
    ELSE reduce_add(pbc, n - 1)
         + (IF CategoryOrder[n] \in DOMAIN pbc
            THEN Cardinality(pbc[CategoryOrder[n]]) ELSE 0)

\* reduce without an initial value raises TypeError on an empty sequence.
reduce_raises(pbc) == DOMAIN pbc = {}

\* CountsReport.report_lines, as far as TOTAL
CountsReport ==
    /\ pc = "running"
    /\ LoopDone
    /\ total = -1
    /\ LET pbc == pairs_by_category(pairs)
       IN  IF reduce_raises(pbc)
           THEN /\ Abort("TypeError")
                /\ total' = total
                /\ last' = [NoLast EXCEPT !.op = "counts", !.exc = "TypeError"]
           ELSE /\ Continue
                /\ total' = reduce_add(pbc, Len(CategoryOrder))
                /\ last' = [NoLast EXCEPT !.op = "counts"]
    /\ UNCHANGED <<files, sfa, sfb, regexps, pairs, prefixes, substituted, settled,
                   stdout>>

\* main returns: normal completion
Exit ==
    /\ pc = "running"
    /\ LoopDone
    /\ pc' = "exited"
    /\ exitcode' = 0
    /\ exc' = ""
    /\ last' = [NoLast EXCEPT !.op = "exit"]
    /\ UNCHANGED <<files, sfa, sfb, regexps, pairs, prefixes, substituted, settled,
                   total, stdout>>

\* ------------------------------------------------------------------------
\* The reports that walk the pairs
\* ------------------------------------------------------------------------
\* The positions of the pairs of category c, in the order main appended them
IndicesWith(ps, c) ==
    SelectSeq([i \in 1..Len(ps) |-> i], LAMBDA i : ps[i].category = c)

\* Reporter.categories from priority n down, IDENTICAL left out, each
\* category followed by its pairs: the order in which the reports walk.
RECURSIVE report_order(_, _)
report_order(ps, n) ==
    IF n = 0 THEN <<>>
    ELSE (IF CategoryOrder[n] = "IDENTICAL" THEN <<>>
          ELSE IndicesWith(ps, CategoryOrder[n]))
         \o report_order(ps, n - 1)

\* --verbose counts
Verbosities == {0, 1, 2}

\* FilesByCategoryReport picks _diff_lines over _list_lines for category c
diffs_category(v, c) == v > (IF c = "IMPROVED" THEN 1 ELSE 0)

\* pair.delta reads self.a.lines, self.b.lines and both filenames; an
\* absent record is None and has none of them.
delta_raises(pair) == ~pair.a \/ ~pair.b

\* FilesByCategoryReport.report_lines: the pairs whose delta was rendered
\* and the exception raised.
files_by_category_report(ps, v) ==
    LET order == report_order(ps, Len(CategoryOrder))
        diffed == SelectSeq(order, LAMBDA i : diffs_category(v, ps[i].category))
    IN  IF \E j \in 1..Len(diffed) : delta_raises(ps[diffed[j]])
        THEN [deltas |-> {}, exc |-> "AttributeError"]
        ELSE [deltas |-> {diffed[j] : j \in 1..Len(diffed)}, exc |-> ""]

\* print(FilesByCategoryReport(pairs_by_category)), after the counts report
FilesByCategoryReport(v) ==
    /\ pc = "running"
    /\ total # -1
    /\ last.op = "counts"
    /\ LET r == files_by_category_report(pairs, v)
       IN  /\ last' = [NoLast EXCEPT !.op = "files", !.v = v,
                                     !.deltas = r.deltas, !.exc = r.exc]
           /\ IF r.exc # "" THEN Abort(r.exc) ELSE Continue
    /\ UNCHANGED <<files, sfa, sfb, regexps, pairs, prefixes, substituted, settled,
                   total, stdout>>

\* BuildErrorsReport.report_lines reads pair.b.build_errors of every pair
\* outside IDENTICAL.
build_errors_report_raises(ps) ==
    LET order == report_order(ps, Len(CategoryOrder))
    IN  \E j \in 1..Len(order) : ~ps[order[j]].b

\* print(BuildErrorsReport(pairs_by_category)): --report-errors --verbose
BuildErrorsReport ==
    /\ pc = "running"
    /\ LoopDone
    /\ total = -1
    /\ IF build_errors_report_raises(pairs)
       THEN /\ Abort("AttributeError")
            /\ last' = [NoLast EXCEPT !.op = "builderrors",
                                      !.exc = "AttributeError"]
       ELSE /\ Continue
            /\ last' = [NoLast EXCEPT !.op = "builderrors"]
    /\ UNCHANGED <<files, sfa, sfb, regexps, pairs, prefixes, substituted, settled,
                   total, stdout>>

\* The loop of GroupedBuildErrorsReport.report_lines over the pairs from
\* position j of the walk on: pair.b.terse_build_errors of each.
RECURSIVE grouped_loop(_, _, _, _, _)
grouped_loop(ps, B, order, j, acc) ==
    IF j > Len(order) \/ acc.exc # "" THEN acc
    ELSE IF ~ps[order[j]].b
    THEN [acc EXCEPT !.exc = "AttributeError"]
    ELSE LET r == terse_build_errors(acc.prefixes, B[ps[order[j]].key].errs)
         IN  grouped_loop(ps, B, order, j + 1,
                          [prefixes |-> r.prefixes, exc |-> r.exc,
                           printed |-> r.printed])

\* print(GroupedBuildErrorsReport(pairs_by_category)): --report-errors
GroupedBuildErrorsReport ==
    /\ pc = "running"
    /\ LoopDone
    /\ total = -1
    /\ LET r == grouped_loop(pairs, sfb,
                             report_order(pairs, Len(CategoryOrder)), 1,
                             [prefixes |-> prefixes, exc |-> "",
                              printed |-> <<>>])
       IN  /\ prefixes' = r.prefixes
           /\ stdout' = r.printed
           /\ last' = [NoLast EXCEPT !.op = "grouped", !.exc = r.exc]
           /\ IF r.exc # "" THEN Abort(r.exc) ELSE Continue
    /\ UNCHANGED <<files, sfa, sfb, regexps, pairs, substituted, settled, total>>

Next ==
    \/ IterNext
    \/ \E key \in Keys : GetItem(key)
    \/ \E i \in 1..Len(pairs) : ReadCategory(i)
    \/ \E i \in 1..Len(pairs) : CheckEquivalence(i)
    \/ \E f \in Sumfiles, key \in Keys : TerseBuildErrors(f, key)
    \/ CountsReport
    \/ \E v \in Verbosities : FilesByCategoryReport(v)
    \/ BuildErrorsReport
    \/ GroupedBuildErrorsReport
    \/ Exit

Spec == Init /\ [][Next]_vars

\* ------------------------------------------------------------------------
\* Further input families, under the same operations
\* ------------------------------------------------------------------------
\* Any two logs over the three keys, each test with no or one sub-result.
MatchRecords == {<<>>, <<[raw |-> PASS, msg |-> MsgA]>>}

InitMatch ==
    /\ \E KA \in SUBSET Keys, KB \in SUBSET Keys :
        \E ca \in [KA -> [rs : MatchRecords, errs : {<<>>}]],
           cb \in [KB -> [rs : MatchRecords, errs : {<<>>}]] :
            /\ sfa = MkSumfile("A", ca)
            /\ sfb = MkSumfile("B", cb)
    /\ regexps = {}
    /\ InitRest

SpecMatch == InitMatch /\ [][Next]_vars

\* A log and an exact copy of it: the same lines parse to the same records.
\* One key carries any sub-results, the other key no or one sub-result.
CopyKeys == {KeyBase, KeyThreads}

CopyRecords(rich, k) ==
    IF k = rich THEN SeqUpTo(RawResults, MaxResults) ELSE MatchRecords

InitCopy ==
    /\ \E rich \in CopyKeys, K \in SUBSET CopyKeys :
        \E c \in [K -> [rs : SeqUpTo(RawResults, MaxResults), errs : {<<>>}]] :
            /\ \A k \in K : c[k].rs \in CopyRecords(rich, k)
            /\ sfa = MkSumfile("A", c)
            /\ sfb = MkSumfile("B", c)
    /\ regexps = {RacyExprBase}
    /\ InitRest

SpecCopy == InitCopy /\ [][Next]_vars

\* One test in both logs, each record with a build-error block (A's of at
\* most one line).
InitTerse ==
    /\ \E ea \in SeqUpTo(ErrLines, 1), eb \in SeqUpTo(ErrLines, MaxErrLines) :
        /\ sfa = MkSumfile("A", [k \in {KeyBase} |-> [rs |-> <<>>, errs |-> ea]])
        /\ sfb = MkSumfile("B", [k \in {KeyBase} |-> [rs |-> <<>>, errs |-> eb]])
    /\ regexps = {}
    /\ InitRest

SpecTerse == InitTerse /\ [][Next]_vars

\* ------------------------------------------------------------------------
\* Properties
\* ------------------------------------------------------------------------
\* The last operation ran the decision procedure (_categorize).
Categorized == last.op = "category" /\ last.ran

\* The last operation ran _categorize on a pair with both records present.
CategorizedPresent == Categorized /\ last.a /\ last.b

\* The result lists of the pair the last operation was about
LastA == sfa[last.key].results

LastB == sfb[last.key].results

AllCook(results) == ~counts_raises(results)

HasNonSkip(results) ==
    \E i \in 1..Len(results) : status(results[i]) # SKIP

\* C1: every run of the decision procedure on records whose statuses cook
\* to PASS, FAIL or SKIP returns one of the ten categories and raises
\* nothing (the final assertion of the count comparison included).
C1_CategorizeTotal ==
    (Categorized
        /\ (last.a => AllCook(LastA))
        /\ (last.b => AllCook(LastB)))
    => (last.exc = "" /\ last.cat \in Categories)

C3_EmptyIsSkippedEquivalent ==
    (CategorizedPresent /\ Len(LastA) = 0 /\ Len(LastB) = 0)
    => last.cat = "SKIPPED_EQUIVALENT"

\* C3 as amended: a pair whose test is present in both logs with zero
\* sub-results in A and zero in B is categorized IDENTICAL.
C3_EmptyIsIdentical ==
    (CategorizedPresent /\ Len(LastA) = 0 /\ Len(LastB) = 0)
    => last.cat = "IDENTICAL"

C3_Witness ==
    /\ CategorizedPresent /\ Len(LastA) = 0 /\ Len(LastB) = 0
    /\ last.cat = "IDENTICAL"

C5_MatcherKeysUnion ==
    LET mk == matcher_keys(sfa, sfb)
        union == DOMAIN sfa \cup DOMAIN sfb
    IN  /\ {mk[i] : i \in 1..Len(mk)} = union
        /\ Len(mk) = Cardinality(union)
        /\ Len(pairs) <= Len(mk)
        /\ \A i \in 1..Len(pairs) :
            /\ pairs[i].key = mk[i]
            /\ pairs[i].a = (mk[i] \in DOMAIN sfa)
            /\ pairs[i].b = (mk[i] \in DOMAIN sfb)
            /\ pairs[i].a \/ pairs[i].b
        /\ last.op = "getitem" =>
            /\ (last.exc = "KeyError") = (last.key \notin union)
            /\ last.exc = "" => (last.a \/ last.b)

\* C5's case: three keys, one only in A and one only in B, all yielded.
C5_Witness ==
    /\ Len(pairs) = 3
    /\ \E i \in 1..3 : pairs[i].a /\ ~pairs[i].b
    /\ \E i \in 1..3 : ~pairs[i].a /\ pairs[i].b
    /\ \E i \in 1..3 : pairs[i].a /\ pairs[i].b

\* C6: a key only in B is TEST_APPEARED and a key only in A is
\* TEST_VANISHED, whatever sub-results the present record holds; the
\* decision runs no equivalence check and changes no record.
C6_AppearedVanished ==
    [][(last'.op = "category" /\ last'.ran /\ ~(last'.a /\ last'.b))
        => /\ ~last'.a => last'.cat = "TEST_APPEARED"
           /\ ~last'.b => last'.cat = "TEST_VANISHED"
           /\ last'.consulted = 0 /\ last'.replaced = 0
           /\ last'.exc = ""
           /\ sfa' = sfa /\ sfb' = sfb]_vars

\* C6's case: a test only in B, with sub-results, categorized.
C6_Witness ==
    /\ Categorized /\ ~last.a /\ last.b
    /\ Len(LastB) > 0
    /\ last.cat = "TEST_APPEARED"

\* C7: the decision procedure runs at most once per pair; once a category
\* is cached it never changes, and a later read returns it without running
\* the procedure again and without changing any record.
C7_CategoryCached ==
    /\ [](\A i \in 1..Len(pairs) : pairs[i].ncat <= 1)
    /\ [][\A i \in 1..Len(pairs) :
            pairs[i].category # None =>
                /\ pairs'[i].category = pairs[i].category
                /\ pairs'[i].ncat = pairs[i].ncat
                /\ (last'.op = "category" /\ last'.idx = i) =>
                    /\ last'.cat = pairs[i].category
                    /\ ~last'.ran
                    /\ sfa' = sfa /\ sfb' = sfb]_vars

\* C7's case: a read that returned the cached category of a pair whose
\* categorization had substituted a racy failure.
C7_Witness ==
    /\ last.op = "category" /\ ~last.ran
    /\ last.cat # None
    /\ last.key \in substituted

\* C8: after an equivalence check that substituted a racy failure and found
\* the two records equivalent, the next check of the same records finds
\* them equivalent, replaces nothing, and neither consults the racy
\* classifier nor warns.
C8_RacyIdempotent ==
    ((last.op = "equivalent" \/ Categorized) /\ last.a /\ last.b
        /\ last.priorEq)
    => (~last.neq /\ last.replaced = 0 /\ last.consulted = 0
        /\ last.warned = 0)

\* The category the count rules of C9 name for result lists a and b.
ByCountRules(a, b) ==
    IF num_passed(b) < num_passed(a) THEN "REGRESSED"
    ELSE IF num_skipped(b) < num_skipped(a) THEN "IMPROVED"
    ELSE IF num_failed(b) > num_failed(a) THEN "REGRESSED"
    ELSE IF num_skipped(b) > num_skipped(a) THEN "PART_SKIPPED"
    ELSE IF num_passed(b) > num_passed(a) THEN "IMPROVED"
    ELSE "EQUIVALENT"

\* C9: a pair that is not overall-equivalent and whose B record has a
\* sub-result that is not cooked SKIP gets the category of the first
\* matching count rule, EQUIVALENT when none of the five matches.
C9_CountRules ==
    (CategorizedPresent /\ last.neq /\ HasNonSkip(LastB))
    => (last.exc = "" /\ last.cat = ByCountRules(LastA, LastB))

\* C10: a terse extraction over a non-empty build-error block that yields
\* no terse line ends the process with a non-zero exit status, after
\* printing every line of the block with its 1-based index.
C10_TerseFailureExitsNonZero ==
    LET block == (IF last.f = "A" THEN sfa ELSE sfb)[last.key].errs
    IN  (last.op = "terse" /\ block # <<>> /\ last.terse = <<>>
            /\ last.exc # "ValueError")
        => /\ pc = "exited"
           /\ exitcode # 0
           /\ stdout = numbered(block)

\* ------------------------------------------------------------------------
\* Statuses that do not cook
\* ------------------------------------------------------------------------
ERROR == <<"E", "R", "R", "O", "R">>

\* Result lines with a status outside *PASS, *FAIL and UN*
StatusResults ==
    {[raw |-> ERROR, msg |-> MsgA], [raw |-> PASS, msg |-> MsgA],
     [raw |-> UNTESTED, msg |-> MsgA]}

\* One test, in either log or both, whose lines may carry such a status.
InitStatus ==
    /\ \E KA \in SUBSET {KeyBase}, KB \in SUBSET {KeyBase} :
        \E ca \in [KA -> [rs : SeqUpTo(StatusResults, MaxResults),
                          errs : {<<>>}]],
           cb \in [KB -> [rs : SeqUpTo(StatusResults, MaxResults),
                          errs : {<<>>}]] :
            /\ sfa = MkSumfile("A", ca)
            /\ sfb = MkSumfile("B", cb)
    /\ regexps = {}
    /\ InitRest

SpecStatus == InitStatus /\ [][Next]_vars

\* Some record of the log holds a sub-result whose status does not cook.
HasBadStatus(testcases) ==
    \E k \in DOMAIN testcases : counts_raises(testcases[k].results)

\* C11: when either log holds a result line whose status cooks to none of
\* PASS, FAIL and SKIP, no pair is ever given a category, no report is
\* printed and the process never completes normally.
C11_BadStatusAlwaysFatal ==
    (HasBadStatus(sfa) \/ HasBadStatus(sfb))
    => /\ \A i \in 1..Len(pairs) : pairs[i].category = None
       /\ total = -1
       /\ exitcode # 0

\* The prefix and the two messages C12 speaks of
DiagnosticPrefix ==
    <<"f", "o", "o", ".", "c", ":", "1", "2", ":", "5">>

\* unused variable 'x' [-Wunused-variable]
DiagnosticMessage ==
    <<"u", "n", "u", "s", "e", "d", " ", "v", "a", "r", "i", "a", "b", "l",
      "e", " ", "'", "x", "'", " ", "[", "-", "W", "u", "n", "u", "s", "e",
      "d", "-", "v", "a", "r", "i", "a", "b", "l", "e", "]">>

\* unused variable 'x'
DiagnosticMessageBare ==
    <<"u", "n", "u", "s", "e", "d", " ", "v", "a", "r", "i", "a", "b", "l",
      "e", " ", "'", "x", "'">>

\* The build-error block the last terse extraction read
LastBlock == (IF last.f = "A" THEN sfa ELSE sfb)[last.key].errs

\* The last operation was a terse extraction over a block that holds the
\* diagnostic line, and it did not fail on a line with several markers.
ExtractedDiagnostic ==
    /\ last.op = "terse"
    /\ last.exc # "ValueError"
    /\ \E i \in 1..Len(LastBlock) : LastBlock[i] = DiagnosticParts

\* C12 as stated: the line is accepted with prefix foo.c:12:5 and message
\* unused variable 'x', and the prefix is in the cache afterwards.
C12_DiagnosticCached ==
    ExtractedDiagnostic
    => /\ \E j \in 1..Len(last.terse) :
            last.terse[j] = <<DiagnosticPrefix, DiagnosticMessageBare>>
       /\ DiagnosticPrefix \in prefixes

\* C12 as amended: the line splits into the prefix foo.c:12:5 and the
\* message unused variable 'x' [-Wunused-variable] (the flag citation
\* stays in the message); the extraction accepts the line, and the prefix,
\* being a location in a file, is not in the cache afterwards.
C12_DiagnosticAccepted ==
    /\ DiagnosticParts = <<DiagnosticPrefix, DiagnosticMessage>>
    /\ ExtractedDiagnostic
        => /\ \E j \in 1..Len(last.terse) :
                last.terse[j] = <<DiagnosticPrefix, DiagnosticMessage>>
           /\ DiagnosticPrefix \notin prefixes

\* C12's case: the line extracted from a block whose other line put a tool
\* name in the cache.
C12_Witness ==
    /\ ExtractedDiagnostic
    /\ \E j \in 1..Len(last.terse) : last.terse[j] = DiagnosticParts
    /\ PrefixTool \in prefixes
    /\ DiagnosticPrefix \notin prefixes

\* ------------------------------------------------------------------------
\* The failure-of relation, applied to any two sub-results
\* ------------------------------------------------------------------------
MsgB == <<"b">>

\* One test in each log, under the same name or under two names, each with
\* one sub-result.
RelationKeys == {KeyBase, KeyThreads}

RelationResults ==
    [raw : {PASS, FAIL, KFAIL, UNTESTED, ERROR}, msg : {MsgA, MsgAB, MsgB}]

InitRelation ==
    /\ \E ka \in RelationKeys, kb \in RelationKeys :
        \E ra \in RelationResults, rb \in RelationResults :
            /\ sfa = MkSumfile("A", [k \in {ka} |-> [rs |-> <<ra>>, errs |-> <<>>]])
            /\ sfb = MkSumfile("B", [k \in {kb} |-> [rs |-> <<rb>>, errs |-> <<>>]])
    /\ regexps = {}
    /\ InitRest

\* The sub-results of both logs
ResultsOf(testcases) ==
    UNION {{testcases[k].results[i] : i \in 1..Len(testcases[k].results)} :
           k \in DOMAIN testcases}

SubResults == ResultsOf(sfa) \cup ResultsOf(sfb)

\* x.is_failure_of(y)
IsFailureOf(x, y) ==
    /\ pc = "running"
    /\ LET l == [NoLast EXCEPT !.op = "failure_of", !.x = x, !.y = y]
       IN  IF failure_of_raises(x, y)
           THEN /\ Abort("ValueError")
                /\ last' = [l EXCEPT !.exc = "ValueError"]
           ELSE /\ Continue
                /\ last' = [l EXCEPT !.holds = is_failure_of(x, y)]
    /\ UNCHANGED <<files, sfa, sfb, regexps, pairs, prefixes, substituted, settled,
                   total, stdout>>

NextRelation ==
    \E x \in SubResults, y \in SubResults : IsFailureOf(x, y)

SpecRelation == InitRelation /\ [][NextRelation]_vars

\* C13 as stated: X is a failure of Y of the same test exactly when X cooks
\* to FAIL, Y cooks to PASS and X's message is a prefix of Y's message.
C13_FailMessagePrefixOfPass ==
    (last.op = "failure_of" /\ last.exc = "" /\ last.x.key = last.y.key)
    => (last.holds <=> /\ cooked(last.x) = FAIL
                       /\ cooked(last.y) = PASS
                       /\ StartsWith(last.y.msg, last.x.msg))

\* C13 as amended: X is a failure of Y exactly when both belong to the same
\* test, X cooks to FAIL, Y cooks to PASS and Y's message (the PASS's) is a
\* prefix of X's message (the FAIL's); the question raises ValueError
\* exactly when both belong to the same test and X's status does not cook,
\* or X cooks to FAIL and Y's status does not cook.
C13_PassMessagePrefixOfFail ==
    last.op = "failure_of"
    => /\ (last.exc = "ValueError") <=>
            /\ last.x.key = last.y.key
            /\ \/ cooked(last.x) \notin {PASS, FAIL, SKIP}
               \/ /\ cooked(last.x) = FAIL
                  /\ cooked(last.y) \notin {PASS, FAIL, SKIP}
       /\ last.exc = "" =>
            (last.holds <=> /\ last.x.key = last.y.key
                            /\ cooked(last.x) = FAIL
                            /\ cooked(last.y) = PASS
                            /\ StartsWith(last.x.msg, last.y.msg))

\* C13's case: a FAIL whose message extends the message of the PASS.
C13_Witness ==
    /\ last.op = "failure_of" /\ last.holds
    /\ last.x.raw = KFAIL /\ last.y.raw = PASS
    /\ last.x.msg = MsgAB /\ last.y.msg = MsgA

\* ------------------------------------------------------------------------
\* Racy substitution and what it leaves in the records
\* ------------------------------------------------------------------------
\* Position i of the record xs was substituted from the record ys: xs held
\* a sub-result cooked FAIL there and now holds what ys holds there, and ys
\* is as it was.
SubstitutedAt(xs, xsNext, ys, ysNext, i) ==
    /\ xsNext[i] # xs[i]
    /\ ysNext[i] = ys[i]
    /\ cooked(xs[i]) = FAIL
    /\ xsNext[i] = ys[i]

\* C14: an equivalence check that accepts racy failures changes the two
\* records only at the accepted positions: there the failing record gets the
\* other record's sub-result, so the two agree, and every other element of
\* both records is as before, also when the failing record holds an equal
\* sub-result at another position.
C14_ReplacesAtPosition ==
    [][(last'.op \in {"equivalent", "category"} /\ last'.replaced > 0)
        => LET a == sfa[last'.key].results
               b == sfb[last'.key].results
               an == sfa'[last'.key].results
               bn == sfb'[last'.key].results
           IN  \A i \in 1..Len(a) :
                \/ an[i] = a[i] /\ bn[i] = b[i]
                \/ SubstitutedAt(a, an, b, bn, i)
                \/ SubstitutedAt(b, bn, a, an, i)]_vars

ReportsPassOrFail(results) ==
    \E i \in 1..Len(results) : cooked(results[i]) \in {PASS, FAIL}

\* C16: a pair present in both logs in which neither run reported a PASS or
\* a FAIL and whose sub-result sequences are not identical is
\* SKIPPED_EQUIVALENT; TEST_SKIPPED and TEST_BOMBED are returned only when A
\* reported a PASS or a FAIL.
C16_SkippedEquivalent ==
    CategorizedPresent
    => /\ (~ReportsPassOrFail(LastA) /\ ~ReportsPassOrFail(LastB)
              /\ ~results_eq(LastA, LastB))
            => last.cat = "SKIPPED_EQUIVALENT"
       /\ last.cat \in {"TEST_SKIPPED", "TEST_BOMBED"}
            => ReportsPassOrFail(LastA)

\* ------------------------------------------------------------------------
\* Sumfile._read: the parser
\* ------------------------------------------------------------------------
\* A line of a log is the tuple of its characters, its terminator included.
RUNLINE_PREFIX ==
    <<"R", "u", "n", "n", "i", "n", "g", " ">>

RUNLINE_SUFFIX ==
    <<" ", ".", ".", ".", "\n">>

SUMMARY_PREFIX ==
    <<"\t", "\t", "=", "=", "=", " ">>

SUMMARY_SUFFIX ==
    <<" ", "S", "u", "m", "m", "a", "r", "y", " ", "=", "=", "=", "\n">>

WordDuplicate ==
    <<"D", "U", "P", "L", "I", "C", "A", "T", "E">>

WordPath ==
    <<"P", "A", "T", "H">>

ExpColon ==
    <<".", "e", "x", "p", ":", " ">>

UpperCase ==
    {"A", "B", "C", "D", "E", "F", "G", "H", "I", "J", "K", "L", "M", "N",
     "O", "P", "Q", "R", "S", "T", "U", "V", "W", "X", "Y", "Z"}

\* str.endswith
EndsWith(s, p) ==
    /\ Len(p) <= Len(s)
    /\ SubSeq(s, Len(s) - Len(p) + 1, Len(s)) = p

is_runline(line) ==
    StartsWith(line, RUNLINE_PREFIX) /\ EndsWith(line, RUNLINE_SUFFIX)

\* The test of _pop_summary's loop
is_summary_banner(line) ==
    StartsWith(line, SUMMARY_PREFIX) /\ EndsWith(line, SUMMARY_SUFFIX)

\* lines[0][len(RUNLINE_PREFIX):-len(RUNLINE_SUFFIX)]
filename(runline) ==
    SubSeq(runline, Len(RUNLINE_PREFIX) + 1, Len(runline) - Len(RUNLINE_SUFFIX))

\* str.rfind("/") + 1: the position of the last separator, 0 if none
LastSlash(p) ==
    IF \E i \in 1..Len(p) : p[i] = "/"
    THEN CHOOSE i \in 1..Len(p) :
            p[i] = "/" /\ \A j \in (i + 1)..Len(p) : p[j] # "/"
    ELSE 0

\* str.rstrip("/")
RECURSIVE RStripSlash(_)
RStripSlash(p) ==
    IF p # <<>> /\ p[Len(p)] = "/"
    THEN RStripSlash(SubSeq(p, 1, Len(p) - 1)) ELSE p

\* os.path.split: head and tail
path_split(p) ==
    LET head == SubSeq(p, 1, LastSlash(p))
        tail == SubSeq(p, LastSlash(p) + 1, Len(p))
    IN  <<IF \E j \in 1..Len(head) : head[j] # "/"
          THEN RStripSlash(head) ELSE head,
          tail>>

\* os.path.basename
path_basename(p) == SubSeq(p, LastSlash(p) + 1, Len(p))

\* os.path.join of two components
path_join(a, b) ==
    IF StartsWith(b, <<"/">>) THEN b
    ELSE IF a = <<>> \/ a[Len(a)] = "/" THEN a \o b
    ELSE a \o <<"/">> \o b

\* SumfileTestcase.shortname of the record a run line opens
shortname(runline) ==
    LET parts == path_split(filename(runline))
    IN  path_join(path_basename(parts[1]), parts[2])

\* [A-Z]+ from position i: the position after the run of capitals
RECURSIVE SkipUpper(_, _)
SkipUpper(s, i) ==
    IF i <= Len(s) /\ s[i] \in UpperCase THEN SkipUpper(s, i + 1) ELSE i

\* [^/]+ from position i: the position after the run of non-separators
RECURSIVE SkipNonSlash(_, _)
SkipNonSlash(s, i) ==
    IF i <= Len(s) /\ s[i] # "/" THEN SkipNonSlash(s, i + 1) ELSE i

\* RESULTLINE_RE.match  ^([A-Z]+): ([^/]+/[^/]+\.exp):   -- the two groups
\* and the position after the match; the second [^/]+ is greedy, so the
\* match ends at the last ".exp: " before the next separator.
RESULTLINE_RE_match(line) ==
    LET n == SkipUpper(line, 1)
        p == n + 2
        q == SkipNonSlash(line, p)
        r == SkipNonSlash(line, q + 1)
        ends == {e \in (q + 2)..(r - Len(ExpColon)) : HasAt(line, e, ExpColon)}
        e == CHOOSE e \in ends : \A g \in ends : g <= e
        nomatch == [matched |-> FALSE, status |-> <<>>, shortname |-> <<>>,
                    end |-> 0]
    IN  IF n = 1 \/ ~HasAt(line, n, <<":", " ">>) THEN nomatch
        ELSE IF q = p \/ q > Len(line) THEN nomatch
        ELSE IF ends = {} THEN nomatch
        ELSE [matched |-> TRUE,
              status |-> SubSeq(line, 1, n - 1),
              shortname |-> SubSeq(line, p, e + 3),
              end |-> e + Len(ExpColon)]

\* str.strip
RECURSIVE RStrip(_)
RStrip(s) ==
    IF s # <<>> /\ s[Len(s)] \in Whitespace
    THEN RStrip(SubSeq(s, 1, Len(s) - 1)) ELSE s

Strip(s) == RStrip(SubSeq(s, SkipSpace(s, 1), Len(s)))

\* SumfileTestcase(runline)
NewTestcase(runline) == [lines |-> <<runline>>, results |-> <<>>]

\* Variant: the administrative statuses dropped before the path is checked.
consume_drops_before_check(f, key, rec, line) ==
    LET m == RESULTLINE_RE_match(line)
        result == Result(f, key, m.status,
                         Strip(SubSeq(line, m.end, Len(line))))
        appended == [rec EXCEPT !.lines = Append(@, line)]
    IN  IF ~m.matched THEN [rec |-> appended, exc |-> ""]
        ELSE IF m.status \in {WordDuplicate, WordPath}
        THEN [rec |-> appended, exc |-> ""]
        ELSE IF m.shortname # key
        THEN [rec |-> rec, exc |-> "AssertionError"]
        ELSE [rec |-> [appended EXCEPT !.results = Append(@, result)],
              exc |-> ""]

\* _consume(line) on the record rec of key in sumfile f: the record
\* afterwards and the exception raised.
consume(f, key, rec, line) ==
    LET m == RESULTLINE_RE_match(line)
        result == Result(f, key, m.status,
                         Strip(SubSeq(line, m.end, Len(line))))
        appended == [rec EXCEPT !.lines = Append(@, line)]
    IN  IF ~m.matched THEN [rec |-> appended, exc |-> ""]
        ELSE IF m.shortname # key
        THEN [rec |-> rec, exc |-> "AssertionError"]
        ELSE IF m.status \in {WordDuplicate, WordPath}
        THEN [rec |-> appended, exc |-> ""]
        ELSE [rec |-> [appended EXCEPT !.results = Append(@, result)],
              exc |-> ""]

\* _pop_summary on a record's lines: the lines kept, the summary excised,
\* and the exception raised.  The loop stops at the last banner line; the
\* slice starts one line before it.
pop_summary(lines) ==
    LET banners == {i \in 1..Len(lines) : is_summary_banner(lines[i])}
        last_banner == CHOOSE i \in banners : \A j \in banners : j <= i
    IN  IF lines = <<>> \/ banners = {}
        THEN [lines |-> lines, summary |-> <<>>, exc |-> "AssertionError"]
        ELSE IF last_banner = 1
        THEN [lines |-> lines, summary |-> <<>>, exc |-> "AssertionError"]
        ELSE [lines |-> SubSeq(lines, 1, last_banner - 2),
              summary |-> SubSeq(lines, last_banner - 1, Len(lines)),
              exc |-> ""]

\* The state of _read's loop: the mapping, the preamble, the open record's
\* key, and the exception raised.
ReadStart ==
    [testcases |-> <<>>, preamble |-> <<>>, isopen |-> FALSE, open |-> <<>>,
     summary |-> <<>>, exc |-> ""]

\* The loop of _read over the lines from position i on
RECURSIVE read_loop(_, _, _, _)
read_loop(f, lines, st, i) ==
    IF i > Len(lines) \/ st.exc # "" THEN st
    ELSE LET line == lines[i]
             key == shortname(line)
             c == consume(f, st.open, st.testcases[st.open], line)
         IN  IF is_runline(line)
             THEN IF key \in DOMAIN st.testcases
                  THEN [st EXCEPT !.exc = "AssertionError"]
                  ELSE read_loop(f, lines,
                         [st EXCEPT
                            !.testcases = [k \in DOMAIN @ \cup {key} |->
                                            IF k = key THEN NewTestcase(line)
                                            ELSE @[k]],
                            !.isopen = TRUE, !.open = key],
                         i + 1)
             ELSE IF st.isopen
             THEN read_loop(f, lines,
                    [st EXCEPT !.testcases[st.open] = c.rec, !.exc = c.exc],
                    i + 1)
             ELSE read_loop(f, lines,
                    [st EXCEPT !.preamble = Append(@, line)], i + 1)

\* _read: the loop, then the summary popped off the last record
read(f, lines) ==
    LET st == read_loop(f, lines, ReadStart, 1)
        p == pop_summary(st.testcases[st.open].lines)
    IN  IF st.exc # "" \/ ~st.isopen THEN st
        ELSE IF p.exc # "" THEN [st EXCEPT !.exc = p.exc]
        ELSE [st EXCEPT !.testcases[st.open].lines = p.lines,
                        !.summary = p.summary]


\* ------------------------------------------------------------------------
\* Logs to parse
\* ------------------------------------------------------------------------
\* Running /s/d/a.exp ...\n
RunA ==
    <<"R", "u", "n", "n", "i", "n", "g", " ", "/", "s", "/", "d", "/", "a",
      ".", "e", "x", "p", " ", ".", ".", ".", "\n">>

\* Running /s/d/b.exp ...\n
RunB ==
    <<"R", "u", "n", "n", "i", "n", "g", " ", "/", "s", "/", "d", "/", "b",
      ".", "e", "x", "p", " ", ".", ".", ".", "\n">>

\* PASS: d/a.exp: x\n
PassA ==
    <<"P", "A", "S", "S", ":", " ", "d", "/", "a", ".", "e", "x", "p", ":",
      " ", "x", "\n">>

\* FAIL: d/b.exp: x\n
FailB ==
    <<"F", "A", "I", "L", ":", " ", "d", "/", "b", ".", "e", "x", "p", ":",
      " ", "x", "\n">>

\* DUPLICATE: d/a.exp: x\n
DuplicateA ==
    <<"D", "U", "P", "L", "I", "C", "A", "T", "E", ":", " ", "d", "/", "a",
      ".", "e", "x", "p", ":", " ", "x", "\n">>

\* PATH: d/b.exp: x\n
PathB ==
    <<"P", "A", "T", "H", ":", " ", "d", "/", "b", ".", "e", "x", "p", ":",
      " ", "x", "\n">>

\* \n
BlankLine ==
    <<"\n">>

\* \t\t=== gdb Summary ===\n
BannerLine ==
    <<"\t", "\t", "=", "=", "=", " ", "g", "d", "b", " ", "S", "u", "m",
      "m", "a", "r", "y", " ", "=", "=", "=", "\n">>

\* # of x 1\n
CountLine ==
    <<"#", " ", "o", "f", " ", "x", " ", "1", "\n">>

ParseLines ==
    {RunA, RunB, PassA, FailB, DuplicateA, PathB, BlankLine, BannerLine,
     CountLine}

WellFormedLog == <<RunB, FailB, BlankLine, BannerLine, CountLine>>

Unread(lines) ==
    [lines |-> lines, read |-> FALSE, preamble |-> <<>>, summary |-> <<>>]

\* Log A is any sequence of lines, log B a well-formed log; neither is read.
InitParse ==
    /\ \E la \in SeqUpTo(ParseLines, MaxLines) :
        files = [f \in Sumfiles |->
                    IF f = "A" THEN Unread(la) ELSE Unread(WellFormedLog)]
    /\ sfa = <<>>
    /\ sfb = <<>>
    /\ regexps = {}
    /\ pairs = <<>>
    /\ prefixes = InitialPrefixes
    /\ substituted = {}
    /\ settled = {}
    /\ total = -1
    /\ stdout = <<>>
    /\ pc = "running"
    /\ exc = ""
    /\ exitcode = -1
    /\ last = NoLast

\* The first access to sumfile f's testcases: _read parses the whole file.
\* An exception leaves the mapping as far as it was built.
Read(f) ==
    /\ pc = "running"
    /\ ~files[f].read
    /\ \E r \in {read(f, files[f].lines)} :
           /\ files' = [files EXCEPT ![f].read = TRUE,
                                     ![f].preamble = r.preamble,
                                     ![f].summary = r.summary]
           /\ sfa' = IF f = "A" THEN r.testcases ELSE sfa
           /\ sfb' = IF f = "B" THEN r.testcases ELSE sfb
           /\ last' = [NoLast EXCEPT !.op = "read", !.f = f, !.exc = r.exc]
           /\ IF r.exc # "" THEN Abort(r.exc) ELSE Continue
    /\ UNCHANGED <<regexps, pairs, prefixes, substituted, settled, total,
                   stdout>>

NextParse == \E f \in Sumfiles : Read(f)

SpecParse == InitParse /\ [][NextParse]_vars

\* ------------------------------------------------------------------------
\* Properties of the parser
\* ------------------------------------------------------------------------
\* The mapping of the sumfile the last operation read
Testcases(f) == IF f = "A" THEN sfa ELSE sfb

\* The positions of the start-of-test lines of a log
RunPositions(lines) == {i \in 1..Len(lines) : is_runline(lines[i])}

\* The start-of-test line that owns position i: the last one before it
OwnerRun(lines, i) ==
    IF \E r \in RunPositions(lines) : r < i
    THEN CHOOSE r \in RunPositions(lines) :
            /\ r < i
            /\ \A q \in RunPositions(lines) : q < i => q <= r
    ELSE 0

\* The lines of the log that belong to the record open at the end of input
OpenInput(lines) ==
    SubSeq(lines, OwnerRun(lines, Len(lines) + 1), Len(lines))

\* The line yields the sub-result r.
YieldsResult(line, r) ==
    LET m == RESULTLINE_RE_match(line)
    IN  /\ m.matched
        /\ m.status = r.raw
        /\ Strip(SubSeq(line, m.end, Len(line))) = r.msg

\* C17: at the end of a log with a record open, a log without a Summary
\* banner in that record aborts the parse; otherwise the trailing summary
\* is the blank line before the record's last banner, the banner, and all
\* that follows, and the record keeps all its earlier lines: its first line
\* is its start marker and the line of each of its sub-results is among
\* its lines.
C17_PopSummary ==
    (last.op = "read" /\ RunPositions(files[last.f].lines) # {})
    => LET open == OpenInput(files[last.f].lines)
           summary == files[last.f].summary
           rec == Testcases(last.f)[shortname(open[1])]
       IN  /\ (\A i \in 1..Len(open) : ~is_summary_banner(open[i]))
                => last.exc = "AssertionError"
           /\ last.exc = ""
                => /\ rec.lines \o summary = open
                   /\ Len(summary) >= 2
                   /\ summary[1] = BlankLine
                   /\ is_summary_banner(summary[2])
                   /\ \A j \in 3..Len(summary) : ~is_summary_banner(summary[j])
                   /\ rec.lines # <<>>
                   /\ rec.lines[1] = open[1]
                   /\ \A i \in 1..Len(rec.results) :
                        \E j \in 1..Len(rec.lines) :
                            YieldsResult(rec.lines[j], rec.results[i])

\* Two start-of-test lines of the log give the same key.
DuplicateStart(lines) ==
    \E i \in RunPositions(lines), j \in RunPositions(lines) :
        i < j /\ shortname(lines[i]) = shortname(lines[j])

\* A line of an open record matches the result-line pattern with a path
\* that is not the record's key.
MismatchedResult(lines) ==
    \E i \in 1..Len(lines) :
        /\ ~is_runline(lines[i])
        /\ OwnerRun(lines, i) # 0
        /\ RESULTLINE_RE_match(lines[i]).matched
        /\ RESULTLINE_RE_match(lines[i]).shortname
            # shortname(lines[OwnerRun(lines, i)])

\* C20: reading a log in which a start-of-test line repeats a key, or in
\* which a line matching the result-line pattern (DUPLICATE and PATH lines
\* included) names another path than the open record's key, raises and ends
\* the process; after a read that raised nothing the mapping holds one
\* record per start-of-test line, under that line's key.
C20_ParseAborts ==
    last.op = "read"
    => LET lines == files[last.f].lines
       IN  /\ (DuplicateStart(lines) \/ MismatchedResult(lines))
                => /\ last.exc = "AssertionError"
                   /\ pc = "exited"
                   /\ exitcode = 1
           /\ last.exc = ""
                => /\ DOMAIN Testcases(last.f)
                        = {shortname(lines[i]) : i \in RunPositions(lines)}
                   /\ Cardinality(DOMAIN Testcases(last.f))
                        = Cardinality(RunPositions(lines))

\* C20's case: a PATH line that names another test than the open record,
\* in a log that has its banner and repeats no key.
C20_Witness ==
    /\ last.op = "read" /\ last.f = "A"
    /\ files["A"].lines = <<RunA, PathB, BannerLine>>
    /\ last.exc = "AssertionError"
    /\ pc = "exited"

\* ------------------------------------------------------------------------
\* Ownership of sub-results
\* ------------------------------------------------------------------------
\* Every sub-result in the lists of sumfile f's records was created by the
\* record that lists it: its back-reference designates that record.
OwnsItsResults(f, testcases) ==
    \A k \in DOMAIN testcases :
        \A i \in 1..Len(testcases[k].results) :
            /\ testcases[k].results[i].owner = f
            /\ testcases[k].results[i].key = k

\* C18: in every reachable state each sub-result is listed by one record
\* only, the record its back-reference designates.
C18_ExclusiveOwnership ==
    OwnsItsResults("A", sfa) /\ OwnsItsResults("B", sfb)

\* ------------------------------------------------------------------------
\* Properties of the reports
\* ------------------------------------------------------------------------
\* C19: every report completes for every partition: no report raises for
\* want of a record (the grouped report may still stop on a build-error
\* block it cannot reduce), and the standard report at full verbosity
\* renders a delta for each pair outside IDENTICAL.
C19_ReportsComplete ==
    /\ last.op \in {"files", "builderrors"} => last.exc = ""
    /\ last.op = "grouped" => last.exc # "AttributeError"
    /\ (last.op = "files" /\ last.v = 2)
        => last.deltas
            = {i \in 1..Len(pairs) : pairs[i].category # "IDENTICAL"}

\* ------------------------------------------------------------------------
\* Substitution in pairs that are not equivalent
\* ------------------------------------------------------------------------
\* C21: categorizing a pair whose records are not overall-equivalent leaves
\* both records' sub-result lists as they were before the categorization,
\* and the category returned is the one the decision procedure gives for
\* those lists.
C21_NonEquivalentUnchanged ==
    [][(last'.op = "category" /\ last'.ran /\ last'.a /\ last'.b
            /\ last'.neq /\ last'.exc = "")
        => LET a == sfa[last'.key].results
               b == sfb[last'.key].results
           IN  /\ sfa'[last'.key].results = a
               /\ sfb'[last'.key].results = b
               /\ last'.cat = categorize_not_equivalent(a, b).cat]_vars

\* ------------------------------------------------------------------------
\* The parse as a partition of the input
\* ------------------------------------------------------------------------
\* The line lists of the records of sumfile f, joined in the order of their
\* start-of-test lines, from position i of the log on.
RECURSIVE RecordLines(_, _, _)
RecordLines(f, lines, i) ==
    IF i > Len(lines) THEN <<>>
    ELSE IF is_runline(lines[i])
    THEN Testcases(f)[shortname(lines[i])].lines \o RecordLines(f, lines, i + 1)
    ELSE RecordLines(f, lines, i + 1)

\* The positions of the log that belong to the record started at position r
Owned(lines, r) == {i \in (r + 1)..Len(lines) : OwnerRun(lines, i) = r}

\* The line creates a sub-result: it matches the result-line pattern with a
\* status other than DUPLICATE and PATH.
CreatesResult(line) ==
    /\ RESULTLINE_RE_match(line).matched
    /\ RESULTLINE_RE_match(line).status \notin {WordDuplicate, WordPath}

\* C22: after a read that raised nothing, the preamble, the records' line
\* lists in the order of their start lines, and the trailing summary make
\* up the input line sequence; each record's first line is its
\* start-of-test line, and each record holds one sub-result per line of its
\* own that creates one, none for any other line.
C22_ParsePartitions ==
    (last.op = "read" /\ last.exc = "")
    => LET lines == files[last.f].lines
       IN  /\ files[last.f].preamble \o RecordLines(last.f, lines, 1)
                \o files[last.f].summary = lines
           /\ \A r \in RunPositions(lines) :
                LET rec == Testcases(last.f)[shortname(lines[r])]
                IN  /\ rec.lines # <<>>
                    /\ rec.lines[1] = lines[r]
                    /\ Len(rec.results)
                        = Cardinality({i \in Owned(lines, r) :
                                        CreatesResult(lines[i])})

\* ------------------------------------------------------------------------
\* The testcases property, read by a caller that outlives its exceptions
\* ------------------------------------------------------------------------
\* Sumfile.testcases of sumfile f: _read runs if _testcases is None, and the
\* mapping is returned.  _read sets _testcases to a dictionary before its
\* loop, so the test fails from the first access on, whatever became of it.
\* The exception goes to the caller, who keeps the object.
GetTestcases(f) ==
    /\ pc = "running"
    /\ IF ~files[f].read
       THEN \E r \in {read(f, files[f].lines)} :
               /\ files' = [files EXCEPT ![f].read = TRUE,
                                         ![f].preamble = r.preamble,
                                         ![f].summary = r.summary]
               /\ sfa' = IF f = "A" THEN r.testcases ELSE sfa
               /\ sfb' = IF f = "B" THEN r.testcases ELSE sfb
               /\ last' = [NoLast EXCEPT !.op = "testcases", !.f = f,
                                         !.exc = r.exc, !.ran = TRUE]
       ELSE /\ last' = [NoLast EXCEPT !.op = "testcases", !.f = f]
            /\ UNCHANGED <<files, sfa, sfb>>
    /\ UNCHANGED <<regexps, pairs, prefixes, substituted, settled, total,
                   stdout, pc, exc, exitcode>>

NextSumfile == \E f \in Sumfiles : GetTestcases(f)

SpecSumfile == InitParse /\ [][NextSumfile]_vars

\* C23: once the first access to a Sumfile's testcases has raised, every
\* later access to testcases on that Sumfile raises too: none returns a
\* mapping.
C23_FailedParseStaysFailed ==
    [][\A f \in Sumfiles :
        (/\ files[f].read
         /\ read(f, files[f].lines).exc # ""
         /\ last'.op = "testcases" /\ last'.f = f)
        => last'.exc # ""]_vars

\* ------------------------------------------------------------------------
\* Terse extraction and the order of the records
\* ------------------------------------------------------------------------
\* C24: a terse extraction over a record's build-error block yields the
\* lines, and raises the exception, that the same extraction gives in a
\* process that has classified nothing before it.
C24_TerseOrderIndependent ==
    last.op = "terse"
    => /\ last.terse = terse_build_errors(InitialPrefixes, LastBlock).terse
       /\ last.exc = terse_build_errors(InitialPrefixes, LastBlock).exc

============================================================================
